---- MODULE Spec2Model ----
(***************************************************************************)
(* Inventory service of main.js: an express application whose handlers     *)
(* read db.json, change the parsed array in memory and write the whole     *)
(* array back, with uploaded photos staged by multer in the same cache     *)
(* directory.  Every await of a handler is a point where another request   *)
(* may run, so each handler is cut into one action per await.              *)
(***************************************************************************)
EXTENDS Integers, Sequences, FiniteSets, TLC

\* ---------------------------------------------------------------- bounds
MaxReqs   == 4      \* requests accepted in one run
MaxConc   == 3      \* requests accepted in a run that uses both connections
MaxClock  == 2      \* Date.now() ranges over 1..MaxClock
MaxFaults == 1      \* disk operations that fail in one run

Procs     == {1, 2}                 \* connections: one request each at a time
Undefined == "<undefined>"          \* a body field that was not sent
NameVals  == {Undefined, "", "a"}   \* inventory_name of a register
DescVals  == {Undefined, "d"}       \* description of a register
NewNames  == {Undefined, "", "b"}   \* name of an update
NewDescs  == {Undefined, "d"}   \* description of an update
NoFile    == <<>>                   \* req.file undefined, photo null
Exts      == {NoFile, <<".png">>}   \* path.extname of the upload, if any
IdParams  == {<<"1">>, <<"2">>, <<"x">>, <<"2", "x">>}   \* :id as sent
Instants  == 1..MaxClock            \* values of Date.now()

VARIABLES
  dbState,    \* db.json: "absent", "ok", "empty" (opened for writing), "torn"
  db,         \* the array stored in db.json when dbState = "ok"
  files,      \* names of the photo files in cache_path
  now,        \* Date.now() as the last upload read it
  pc,         \* pc[p]: the await request p is suspended at, or "idle"
  req,        \* req[p]: route, parsed id, body fields and staged file of p
  inventory,  \* inventory[p]: the handler's local array
  out,        \* out[p]: the last response sent for p, with its log line
  pre,        \* pre[p]: db.json and cache_path as they were when p arrived
  issued,     \* ids answered by a 201 so far
  deleted,    \* [id, photo] of the items whose DELETE was answered by a 200
  nreq,       \* nreq[p]: requests accepted on connection p so far
  nfault      \* failed disk operations so far

vars == <<dbState, db, files, now, pc, req, inventory, out, pre,
          issued, deleted, nreq, nfault>>

\* ------------------------------------------------------------- helpers
Max(a, b) == IF a >= b THEN a ELSE b

Digit(c) ==
  CASE c = "0" -> 0 [] c = "1" -> 1 [] c = "2" -> 2 [] c = "3" -> 3
    [] c = "4" -> 4 [] c = "5" -> 5 [] c = "6" -> 6 [] c = "7" -> 7
    [] c = "8" -> 8 [] c = "9" -> 9 [] OTHER -> -1

NaN == -1       \* parseInt found no digit; no stored id is negative

RECURSIVE DigitsValue(_, _, _)
\* value of the longest run of digits of s from position i on, acc so far
DigitsValue(s, i, acc) ==
  IF i > Len(s) \/ Digit(s[i]) < 0 THEN acc
  ELSE DigitsValue(s, i + 1, acc * 10 + Digit(s[i]))

\* parseInt(s, 10): the leading digits of s, NaN when s starts with none
ParseInt(s) ==
  IF Len(s) = 0 \/ Digit(s[1]) < 0 THEN NaN ELSE DigitsValue(s, 1, 0)

RECURSIVE MaxIdFrom(_, _)
MaxIdFrom(inv, i) ==
  IF i > Len(inv) THEN 0 ELSE Max(inv[i].id, MaxIdFrom(inv, i + 1))

Ids(inv) == {inv[i].id : i \in 1..Len(inv)}

\* a reduce that never moves past the first element
MaxIdOfFirst(inv) == IF Len(inv) = 0 THEN 0 ELSE inv[1].id

\* inventory.reduce((max, item) => Math.max(max, item.id), 0)
MaxIdOf(inv) == MaxIdFrom(inv, 1)

\* the number of records plus one
NewIdByCount(inv) == Len(inv) + 1

\* the smallest id no record holds
NewIdSmallestFree(inv) ==
  CHOOSE n \in 1..(Len(inv) + 1) :
    n \notin Ids(inv) /\ \A m \in 1..(n - 1) : m \in Ids(inv)

\* const newId = maxId + 1
NewId(inv) == MaxIdOf(inv) + 1

\* inventory.findIndex(i => i.id === requestedId); 0 stands for -1
FindIndex(inv, id) ==
  IF \E i \in 1..Len(inv) : inv[i].id = id
  THEN CHOOSE i \in 1..Len(inv) :
         inv[i].id = id /\ \A j \in 1..(i - 1) : inv[j].id # id
  ELSE 0

\* inventory.pop(): the last record goes, whatever the index
SpliceLast(inv, k) == SubSeq(inv, 1, Len(inv) - 1)

\* inventory.splice(itemIndex, 1)
Splice(inv, k) == [i \in 1..(Len(inv) - 1) |-> IF i < k THEN inv[i] ELSE inv[i + 1]]

\* multer's filename callback: Date.now() + path.extname(originalname)
StorageFilename(t, ext) == <<t>> \o ext

\* upload.single('photo'): the file, if one was sent, is written to
\* cache_path under the name made at instant t, over any file of that name;
\* the clock is not read when no file was sent
Upload(t, ext) ==
  /\ t >= now
  /\ IF ext = NoFile
     THEN t = now /\ UNCHANGED <<files, now>>
     ELSE files' = files \cup {StorageFilename(t, ext)} /\ now' = t

\* ----------------------------------------------------------- responses
NoReq == [op |-> "none", id |-> 0, name |-> Undefined,
          description |-> Undefined, file |-> NoFile, old |-> NoFile,
          warn |-> FALSE, written |-> FALSE]

NoUrl == <<>>
PhotoUrl(id) == <<"/inventory/", id, "/photo">>

\* a response with a text body
Text(op, status, id) ==
  [op |-> op, status |-> status, id |-> id, json |-> FALSE,
   name |-> "", description |-> "", rawPhoto |-> FALSE, photo |-> NoFile,
   photo_url |-> NoUrl, items |-> <<>>, warn |-> FALSE]

\* res.json(item): the record as stored, raw photo field included
JsonRaw(op, status, item) ==
  [op |-> op, status |-> status, id |-> item.id, json |-> TRUE,
   name |-> item.name, description |-> item.description,
   rawPhoto |-> TRUE, photo |-> item.photo, photo_url |-> NoUrl,
   items |-> <<>>, warn |-> FALSE]

\* const { photo, ...rest } = item; photo_url added when withUrl and photo
JsonRest(op, status, item, withUrl) ==
  [op |-> op, status |-> status, id |-> item.id, json |-> TRUE,
   name |-> item.name, description |-> item.description,
   rawPhoto |-> FALSE, photo |-> NoFile,
   photo_url |-> IF withUrl /\ item.photo # NoFile
                 THEN PhotoUrl(item.id) ELSE NoUrl,
   items |-> <<>>, warn |-> FALSE]

NoOut == Text("none", 0, 0)

NoPre == [dbState |-> "absent", db |-> <<>>, files |-> {}]
Snapshot == [dbState |-> dbState, db |-> db, files |-> files]

\* ---------------------------------------------------------------- init
\* after startup: mkdir(cache_path) only, no db.json yet
Init ==
  /\ dbState = "absent"
  /\ db = <<>>
  /\ files = {}
  /\ now = 1
  /\ pc = [p \in Procs |-> "idle"]
  /\ req = [p \in Procs |-> NoReq]
  /\ inventory = [p \in Procs |-> <<>>]
  /\ out = [p \in Procs |-> NoOut]
  /\ pre = [p \in Procs |-> NoPre]
  /\ issued = {}
  /\ deleted = {}
  /\ nreq = [p \in Procs |-> 0]
  /\ nfault = 0

\* ------------------------------------------------- steps shared by handlers
\* a request is accepted
Accept(p) ==
  /\ pc[p] = "idle"
  /\ nreq[1] + nreq[2] < (IF p = 1 /\ nreq[2] = 0 THEN MaxReqs ELSE MaxConc)
  /\ nreq' = [nreq EXCEPT ![p] = @ + 1]

\* the handler answers and ends
Respond(p, r) ==
  /\ out' = [out EXCEPT ![p] = r]
  /\ pc' = [pc EXCEPT ![p] = "idle"]
  /\ req' = [req EXCEPT ![p] = NoReq]
  /\ inventory' = [inventory EXCEPT ![p] = <<>>]
  /\ pre' = [pre EXCEPT ![p] = NoPre]

\* the handler suspends at its first await: no answer yet
Begin(p, label) ==
  /\ pc' = [pc EXCEPT ![p] = label]
  /\ out' = [out EXCEPT ![p] = NoOut]
  /\ pre' = [pre EXCEPT ![p] = Snapshot]

\* the handler suspends at its next await
Goto(p, label) ==
  /\ pc' = [pc EXCEPT ![p] = label]
  /\ UNCHANGED <<out, pre>>

\* JSON.parse(await fs.readFile(database_path)) throws on a file that is
\* being written or was left cut short
Unparsable == dbState \in {"empty", "torn"}

\* fs.writeFile opens db.json with O_TRUNC before it writes: the file is
\* empty from here until the data is written
WriteOpened ==
  /\ dbState' = "empty"
  /\ db' = <<>>
  /\ UNCHANGED nfault

\* the open fails (EACCES, EMFILE, ...): db.json is as it was
WriteOpenFails ==
  /\ nfault < MaxFaults
  /\ nfault' = nfault + 1
  /\ UNCHANGED <<dbState, db>>

\* the data reaches the file this handler truncated; when another handler
\* has written since, the two images overlay and the longer one's tail may
\* survive
WriteDone(inv) ==
  /\ \/ dbState' = "ok" /\ db' = inv
     \/ dbState # "empty" /\ dbState' = "torn" /\ db' = <<>>
  /\ UNCHANGED nfault

\* the write fails part-way (ENOSPC, EIO): the file stays cut short
WriteDataFails ==
  /\ nfault < MaxFaults
  /\ nfault' = nfault + 1
  /\ dbState' = "torn"
  /\ db' = <<>>

\* fs.unlink(name) removes the file
Unlinked(name) ==
  /\ name \in files
  /\ files' = files \ {name}
  /\ UNCHANGED nfault

\* fs.unlink(name) rejects with ENOENT: there is no such file
UnlinkENOENT(name) ==
  /\ name \notin files
  /\ UNCHANGED <<files, nfault>>

\* fs.unlink(name) fails on a file that is there (EACCES, EBUSY, EIO)
UnlinkFails(name) ==
  /\ name \in files
  /\ nfault < MaxFaults
  /\ nfault' = nfault + 1
  /\ UNCHANGED files

\* ------------------------------------------------------ POST /register
\* a test for undefined only, which lets the empty string through
MissingOnly(inventory_name) == inventory_name = Undefined

\* !inventory_name: the field was not sent, or is the empty string
Missing(inventory_name) == inventory_name = Undefined \/ inventory_name = ""

\* upload.single('photo') stages the file, then the handler checks the name
RegisterStart(p, inventory_name, description, t, ext) ==
  /\ Accept(p)
  /\ Upload(t, ext)
  /\ IF Missing(inventory_name)
     THEN Respond(p, Text("register", 400, 0))
     ELSE /\ Begin(p, "reg_read")
          /\ req' = [req EXCEPT ![p] =
                 [NoReq EXCEPT !.op = "register", !.name = inventory_name,
                    !.description = description,
                    !.file = IF ext = NoFile THEN NoFile
                             ELSE StorageFilename(t, ext)]]
          /\ UNCHANGED inventory
  /\ UNCHANGED <<dbState, db, issued, deleted, nfault>>

\* const newItem = { id: newId, name, description: description || '', photo }
NewItem(inv, r) ==
  [id |-> NewId(inv), name |-> r.name,
   description |-> IF r.description = Undefined THEN "" ELSE r.description,
   photo |-> r.file]

\* readFile + JSON.parse (ENOENT: start from []), then push(newItem)
RegisterRead(p) ==
  /\ pc[p] = "reg_read"
  /\ IF Unparsable
     THEN Respond(p, Text("register", 500, 0))
     ELSE LET inv == IF dbState = "absent" THEN <<>> ELSE db IN
          /\ inventory' = [inventory EXCEPT ![p] = Append(inv, NewItem(inv, req[p]))]
          /\ Goto(p, "reg_open")
          /\ UNCHANGED req
  /\ UNCHANGED <<dbState, db, files, now, issued, deleted, nreq, nfault>>

RegisterOpen(p) ==
  /\ pc[p] = "reg_open"
  /\ \/ WriteOpened /\ Goto(p, "reg_data") /\ UNCHANGED <<req, inventory>>
     \/ WriteOpenFails /\ Respond(p, Text("register", 500, 0))
  /\ UNCHANGED <<files, now, issued, deleted, nreq>>

\* the write ends; res.status(201).json(newItem)
RegisterWrite(p) ==
  /\ pc[p] = "reg_data"
  /\ LET newItem == inventory[p][Len(inventory[p])] IN
     \/ /\ WriteDone(inventory[p])
        /\ Respond(p, JsonRaw("register", 201, newItem))
        /\ issued' = issued \cup {newItem.id}
     \/ /\ WriteDataFails
        /\ Respond(p, Text("register", 500, 0))
        /\ UNCHANGED issued
  /\ UNCHANGED <<files, now, deleted, nreq>>

Register(p) ==
  \/ \E n \in NameVals, d \in DescVals, t \in Instants, e \in Exts :
       RegisterStart(p, n, d, t, e)
  \/ RegisterRead(p)
  \/ RegisterOpen(p)
  \/ RegisterWrite(p)

\* --------------------------------------------------- PUT /inventory/:id
\* item.description = description || '': an omitted description is wiped
PatchWiping(item, name, description) ==
  [item EXCEPT !.name = IF name # Undefined THEN name ELSE @,
               !.description = IF description # Undefined THEN description ELSE ""]

\* item.name = name, item.description = description, each when sent
Patch(item, name, description) ==
  [item EXCEPT !.name = IF name # Undefined THEN name ELSE @,
               !.description = IF description # Undefined THEN description ELSE @]

\* parse the id, read db.json, find the item and change it in memory
UpdateRead(p, id, name, description) ==
  /\ Accept(p)
  /\ LET requestedId == ParseInt(id)
         itemIndex == FindIndex(db, requestedId) IN
     IF requestedId = NaN THEN Respond(p, Text("update", 400, 0))
     ELSE IF dbState = "absent" THEN Respond(p, Text("update", 404, requestedId))
     ELSE IF Unparsable THEN Respond(p, Text("update", 500, requestedId))
     ELSE IF itemIndex = 0 THEN Respond(p, Text("update", 404, requestedId))
     ELSE /\ Begin(p, "upd_open")
          /\ req' = [req EXCEPT ![p] =
                 [NoReq EXCEPT !.op = "update", !.id = requestedId,
                               !.name = name, !.description = description]]
          /\ inventory' = [inventory EXCEPT ![p] =
                 [db EXCEPT ![itemIndex] = Patch(@, name, description)]]
  /\ UNCHANGED <<dbState, db, files, now, issued, deleted, nfault>>

UpdateOpen(p) ==
  /\ pc[p] = "upd_open"
  /\ \/ WriteOpened /\ Goto(p, "upd_data") /\ UNCHANGED <<req, inventory>>
     \/ WriteOpenFails /\ Respond(p, Text("update", 500, req[p].id))
  /\ UNCHANGED <<files, now, issued, deleted, nreq>>

\* the write ends; res.json({ ...rest, photo_url })
UpdateWrite(p) ==
  /\ pc[p] = "upd_data"
  /\ LET item == inventory[p][FindIndex(inventory[p], req[p].id)] IN
     \/ /\ WriteDone(inventory[p])
        /\ Respond(p, JsonRest("update", 200, item, TRUE))
     \/ /\ WriteDataFails
        /\ Respond(p, Text("update", 500, req[p].id))
  /\ UNCHANGED <<files, now, issued, deleted, nreq>>

Update(p) ==
  \/ \E i \in IdParams, n \in NewNames, d \in NewDescs : UpdateRead(p, i, n, d)
  \/ UpdateOpen(p)
  \/ UpdateWrite(p)

\* --------------------------------------------- PUT /inventory/:id/photo
\* upload.single('photo') stages the file, then the handler checks id and file
UpdatePhotoStart(p, id, t, ext) ==
  /\ Accept(p)
  /\ Upload(t, ext)
  /\ LET requestedId == ParseInt(id) IN
     IF requestedId = NaN THEN Respond(p, Text("updatePhoto", 400, 0))
     ELSE IF ext = NoFile THEN Respond(p, Text("updatePhoto", 400, requestedId))
     ELSE /\ Begin(p, "up_read")
          /\ req' = [req EXCEPT ![p] =
                 [NoReq EXCEPT !.op = "updatePhoto", !.id = requestedId,
                               !.file = StorageFilename(t, ext)]]
          /\ UNCHANGED inventory
  /\ UNCHANGED <<dbState, db, issued, deleted, nfault>>

\* read db.json and find the item
UpdatePhotoRead(p) ==
  /\ pc[p] = "up_read"
  /\ LET itemIndex == FindIndex(db, req[p].id) IN
     IF dbState = "absent" THEN Respond(p, Text("updatePhoto", 404, req[p].id))
     ELSE IF Unparsable THEN Respond(p, Text("updatePhoto", 500, req[p].id))
     ELSE IF itemIndex = 0
     THEN /\ Goto(p, "up_unlink_staged")
          /\ inventory' = [inventory EXCEPT ![p] = db]
          /\ UNCHANGED req
     ELSE IF db[itemIndex].photo # NoFile
     THEN /\ Goto(p, "up_unlink_old")
          /\ inventory' = [inventory EXCEPT ![p] = db]
          /\ req' = [req EXCEPT ![p].old = db[itemIndex].photo]
     ELSE /\ Goto(p, "up_open")
          /\ inventory' = [inventory EXCEPT ![p] =
                 [db EXCEPT ![itemIndex].photo = req[p].file]]
          /\ UNCHANGED req
  /\ UNCHANGED <<dbState, db, files, now, issued, deleted, nreq, nfault>>

\* no such item: await fs.unlink(req.file.path), outside any try of its own
UpdatePhotoUnlinkStaged(p) ==
  /\ pc[p] = "up_unlink_staged"
  /\ \/ Unlinked(req[p].file) /\ Respond(p, Text("updatePhoto", 404, req[p].id))
     \/ UnlinkENOENT(req[p].file) /\ Respond(p, Text("updatePhoto", 500, req[p].id))
     \/ UnlinkFails(req[p].file) /\ Respond(p, Text("updatePhoto", 500, req[p].id))
  /\ UNCHANGED <<dbState, db, now, issued, deleted, nreq>>

\* try { await fs.unlink(old photo) } catch { console.warn }, then
\* inventory[itemIndex].photo = req.file.filename
UpdatePhotoUnlinkOld(p) ==
  /\ pc[p] = "up_unlink_old"
  /\ LET itemIndex == FindIndex(inventory[p], req[p].id) IN
     /\ inventory' = [inventory EXCEPT ![p][itemIndex].photo = req[p].file]
     /\ \/ Unlinked(req[p].old) /\ UNCHANGED req
        \/ UnlinkENOENT(req[p].old) /\ req' = [req EXCEPT ![p].warn = TRUE]
        \/ UnlinkFails(req[p].old) /\ req' = [req EXCEPT ![p].warn = TRUE]
  /\ Goto(p, "up_open")
  /\ UNCHANGED <<dbState, db, now, issued, deleted, nreq>>

UpdatePhotoOpen(p) ==
  /\ pc[p] = "up_open"
  /\ \/ WriteOpened /\ Goto(p, "up_data") /\ UNCHANGED <<req, inventory>>
     \/ WriteOpenFails
        /\ Respond(p, [Text("updatePhoto", 500, req[p].id) EXCEPT !.warn = req[p].warn])
  /\ UNCHANGED <<files, now, issued, deleted, nreq>>

\* the write ends; 'Photo updated successfully.'
UpdatePhotoWrite(p) ==
  /\ pc[p] = "up_data"
  /\ \/ /\ WriteDone(inventory[p])
        /\ Respond(p, [Text("updatePhoto", 200, req[p].id) EXCEPT !.warn = req[p].warn])
     \/ /\ WriteDataFails
        /\ Respond(p, [Text("updatePhoto", 500, req[p].id) EXCEPT !.warn = req[p].warn])
  /\ UNCHANGED <<files, now, issued, deleted, nreq>>

UpdatePhoto(p) ==
  \/ \E i \in IdParams, t \in Instants, e \in Exts : UpdatePhotoStart(p, i, t, e)
  \/ UpdatePhotoRead(p)
  \/ UpdatePhotoUnlinkStaged(p)
  \/ UpdatePhotoUnlinkOld(p)
  \/ UpdatePhotoOpen(p)
  \/ UpdatePhotoWrite(p)

\* ------------------------------------------------ DELETE /inventory/:id
\* parse the id, read db.json, find the item and splice it out
DeleteRead(p, id) ==
  /\ Accept(p)
  /\ LET requestedId == ParseInt(id)
         itemIndex == FindIndex(db, requestedId) IN
     IF requestedId = NaN THEN Respond(p, Text("delete", 400, 0))
     ELSE IF dbState = "absent" THEN Respond(p, Text("delete", 404, requestedId))
     ELSE IF Unparsable THEN Respond(p, Text("delete", 500, requestedId))
     ELSE IF itemIndex = 0 THEN Respond(p, Text("delete", 404, requestedId))
     ELSE /\ Begin(p, "del_open")
          /\ req' = [req EXCEPT ![p] =
                 [NoReq EXCEPT !.op = "delete", !.id = requestedId,
                               !.old = db[itemIndex].photo]]
          /\ inventory' = [inventory EXCEPT ![p] = Splice(db, itemIndex)]
  /\ UNCHANGED <<dbState, db, files, now, issued, deleted, nfault>>

DeleteOpen(p) ==
  /\ pc[p] = "del_open"
  /\ \/ WriteOpened /\ Goto(p, "del_data") /\ UNCHANGED <<req, inventory>>
     \/ WriteOpenFails /\ Respond(p, Text("delete", 500, req[p].id))
  /\ UNCHANGED <<files, now, issued, deleted, nreq>>

\* the write ends; the photo, if any, is unlinked next
DeleteWrite(p) ==
  /\ pc[p] = "del_data"
  /\ \/ /\ WriteDone(inventory[p])
        /\ IF req[p].old # NoFile
           THEN /\ Goto(p, "del_unlink")
                /\ req' = [req EXCEPT ![p].written = TRUE]
                /\ UNCHANGED <<inventory, deleted>>
           ELSE /\ Respond(p, Text("delete", 200, req[p].id))
                /\ deleted' = deleted \cup {[id |-> req[p].id, photo |-> NoFile]}
     \/ /\ WriteDataFails
        /\ Respond(p, Text("delete", 500, req[p].id))
        /\ UNCHANGED deleted
  /\ UNCHANGED <<files, now, issued, nreq>>

\* try { await fs.unlink(photo) } catch { console.warn }; 'Item deleted'
DeleteUnlink(p) ==
  /\ pc[p] = "del_unlink"
  /\ \/ /\ Unlinked(req[p].old)
        /\ Respond(p, Text("delete", 200, req[p].id))
     \/ /\ UnlinkENOENT(req[p].old) \/ UnlinkFails(req[p].old)
        /\ Respond(p, [Text("delete", 200, req[p].id) EXCEPT !.warn = TRUE])
  /\ deleted' = deleted \cup {[id |-> req[p].id, photo |-> req[p].old]}
  /\ UNCHANGED <<dbState, db, now, issued, nreq>>

Delete(p) ==
  \/ \E i \in IdParams : DeleteRead(p, i)
  \/ DeleteOpen(p)
  \/ DeleteWrite(p)
  \/ DeleteUnlink(p)

\* --------------------------------------------------- GET /inventory/:id
Get(p, id) ==
  /\ Accept(p)
  /\ LET requestedId == ParseInt(id)
         itemIndex == FindIndex(db, requestedId) IN
     IF requestedId = NaN THEN Respond(p, Text("get", 400, 0))
     ELSE IF dbState = "absent" THEN Respond(p, Text("get", 404, requestedId))
     ELSE IF Unparsable THEN Respond(p, Text("get", 500, requestedId))
     ELSE IF itemIndex = 0 THEN Respond(p, Text("get", 404, requestedId))
     ELSE Respond(p, JsonRest("get", 200, db[itemIndex], TRUE))
  /\ UNCHANGED <<dbState, db, files, now, issued, deleted, nfault>>

\* ------------------------------------------------------- GET /inventory
\* const { photo, ...rest } = item; photo_url when the item has a photo
WithUrl(item) ==
  [id |-> item.id, name |-> item.name, description |-> item.description,
   photo_url |-> IF item.photo # NoFile THEN PhotoUrl(item.id) ELSE NoUrl]

List(p) ==
  /\ Accept(p)
  /\ IF dbState = "absent" THEN Respond(p, Text("list", 404, 0))
     ELSE IF Unparsable THEN Respond(p, Text("list", 500, 0))
     ELSE Respond(p, [Text("list", 200, 0) EXCEPT !.json = TRUE,
                        !.items = [i \in 1..Len(db) |-> WithUrl(db[i])]])
  /\ UNCHANGED <<dbState, db, files, now, issued, deleted, nfault>>

\* ------------------------------------------------------------ GET /search
Search(p, id, includePhoto) ==
  /\ Accept(p)
  /\ LET requestedId == ParseInt(id)
         itemIndex == FindIndex(db, requestedId) IN
     IF id = <<>> THEN Respond(p, Text("search", 400, 0))
     ELSE IF requestedId = NaN THEN Respond(p, Text("search", 400, 0))
     ELSE IF dbState = "absent" THEN Respond(p, Text("search", 404, requestedId))
     ELSE IF Unparsable THEN Respond(p, Text("search", 500, requestedId))
     ELSE IF itemIndex = 0 THEN Respond(p, Text("search", 404, requestedId))
     ELSE Respond(p, JsonRest("search", 200, db[itemIndex], includePhoto = "on"))
  /\ UNCHANGED <<dbState, db, files, now, issued, deleted, nfault>>

\* --------------------------------------------- GET /inventory/:id/photo
\* res.sendFile(photoPath): 404 when the file is not on disk
GetPhoto(p, id) ==
  /\ Accept(p)
  /\ LET requestedId == ParseInt(id)
         itemIndex == FindIndex(db, requestedId) IN
     IF requestedId = NaN THEN Respond(p, Text("photo", 400, 0))
     ELSE IF dbState = "absent" THEN Respond(p, Text("photo", 404, requestedId))
     ELSE IF Unparsable THEN Respond(p, Text("photo", 500, requestedId))
     ELSE IF itemIndex = 0 THEN Respond(p, Text("photo", 404, requestedId))
     ELSE IF db[itemIndex].photo = NoFile THEN Respond(p, Text("photo", 404, requestedId))
     ELSE IF db[itemIndex].photo \notin files THEN Respond(p, Text("photo", 404, requestedId))
     ELSE Respond(p, [Text("photo", 200, requestedId) EXCEPT !.photo = db[itemIndex].photo])
  /\ UNCHANGED <<dbState, db, files, now, issued, deleted, nfault>>

\* ------------------------------------------------------- specifications
Step(p) ==
  \/ Register(p)
  \/ Update(p)
  \/ UpdatePhoto(p)
  \/ Delete(p)
  \/ \E i \in IdParams : Get(p, i)
  \/ List(p)
  \/ \E i \in IdParams \cup {<<>>}, o \in {Undefined, "on"} : Search(p, i, o)
  \/ \E i \in IdParams : GetPhoto(p, i)

Next == \E p \in Procs : Step(p)
Spec == Init /\ [][Next]_vars

\* one request at a time
SeqNext == Step(1)
SpecSeq == Init /\ [][SeqNext]_vars

\* register requests only, one at a time
RegNext == Register(1)
SpecReg == Init /\ [][RegNext]_vars

\* ------------------------------------------------------------ vocabulary
Mutating == {"register", "update", "updatePhoto", "delete"}

\* p has read db.json and has not finished writing it back
InReadModifyWrite(p) ==
  pc[p] \in {"reg_open", "reg_data", "upd_open", "upd_data",
             "up_unlink_old", "up_open", "up_data", "del_open", "del_data"}

\* this step sends p's answer at the end of a handler that awaited
Answers(p) == pc[p] # "idle" /\ pc'[p] = "idle"

RegisterAnswers201(p) ==
  pc[p] = "reg_data" /\ pc'[p] = "idle" /\ out'[p].status = 201

HasId(inv, id) == id \in Ids(inv)
ItemOf(inv, id) == inv[FindIndex(inv, id)]
DeletedIds == {d.id : d \in deleted}

\* ------------------------------------------------------------------- C1
\* C1: no two mutating handlers are between their read of db.json and their
\* write-back at the same time, and so two register requests that were both
\* answered 201 while nothing was deleted never carry the same id (each
\* success is a record of its own in the collection).
C1_MutualExclusion ==
  /\ \A p, q \in Procs : p # q => ~(InReadModifyWrite(p) /\ InReadModifyWrite(q))
  /\ \A p, q \in Procs :
       (/\ p # q /\ pc[p] = "idle" /\ pc[q] = "idle" /\ deleted = {}
        /\ out[p].op = "register" /\ out[p].status = 201
        /\ out[q].op = "register" /\ out[q].status = 201)
       => out[p].id # out[q].id

\* ------------------------------------------------------------------- C2
\* C2: in a run of register requests handled one after another, every 201
\* carries an id greater than every id answered before, and the first one
\* carries 1.
C2_RegisterIdsIncrease ==
  [][\A p \in Procs :
       RegisterAnswers201(p) =>
         /\ \A i \in issued : out'[p].id > i
         /\ issued = {} => out'[p].id = 1]_vars

C2_ThirdRegister == issued = {1, 2, 3} /\ out[1].op = "register" /\ out[1].id = 3

C4_UniqueIds ==
  dbState = "ok" =>
    \A i, j \in 1..Len(db) : i # j => db[i].id # db[j].id

\* two records are stored while a request of the other connection is between
\* its read and its write
C4_TwoRecordsInFlight ==
  /\ dbState = "ok" /\ Len(db) = 2
  /\ \E p \in Procs : InReadModifyWrite(p)

\* ------------------------------------------------------------------- C5
\* C5: when a mutating request is answered with success, the record it
\* touched, if it is in the collection with a photo, names a file that is in
\* the photo directory.
C5_NoDanglingPhoto ==
  [][\A p \in Procs :
       (Answers(p) /\ out'[p].op \in Mutating /\ out'[p].status \in {200, 201}) =>
         \A i \in 1..Len(db') :
           (db'[i].id = out'[p].id /\ db'[i].photo # NoFile) =>
             db'[i].photo \in files']_vars

\* ------------------------------------------------------------------- C6
\* C6: an updatePhoto answered 200 leaves the record with the staged
\* filename and the file named before gone; an updatePhoto for an id the
\* collection does not hold is answered 404 and its staged file is gone.
C6_UpdatePhotoReplaces ==
  [][\A p \in Procs :
       (Answers(p) /\ req[p].op = "updatePhoto") =>
         LET id == req[p].id
             held == pre[p].dbState = "ok" /\ HasId(pre[p].db, id)
             unheld == pre[p].dbState \in {"ok", "absent"} /\ ~HasId(pre[p].db, id)
         IN
         /\ (held /\ out'[p].status = 200) =>
              /\ dbState' = "ok" /\ HasId(db', id)
              /\ ItemOf(db', id).photo = req[p].file
              /\ ItemOf(pre[p].db, id).photo # NoFile =>
                   ItemOf(pre[p].db, id).photo \notin files'
         /\ unheld =>
              /\ out'[p].status = 404
              /\ req[p].file \notin files']_vars

\* ------------------------------------------------------------------- C7
\* C7: a handler removes the photo file of the record it changes only after
\* its write-back of the collection has completed.
C7_WriteBeforeUnlink ==
  [][\A p \in Procs :
       (/\ pc[p] \in {"up_unlink_old", "del_unlink"}
        /\ req[p].old \in files /\ req[p].old \notin files')
       => req[p].written]_vars

\* ------------------------------------------------------------------- C8
\* C8: when the write of db.json fails in a mutating handler, the answer is
\* a failure, db.json is as it was when the request arrived, and every
\* record whose photo file was there then still has it.
C8_FailedWriteLeavesNoTrace ==
  [][\A p \in Procs :
       (/\ Answers(p) /\ nfault' = nfault + 1
        /\ pc[p] \in {"reg_open", "reg_data", "upd_open", "upd_data",
                      "up_open", "up_data", "del_open", "del_data"})
       =>
         /\ out'[p].status = 500
         /\ dbState' = pre[p].dbState
         /\ db' = pre[p].db
         /\ \A i \in 1..Len(pre[p].db) :
              LET photo == pre[p].db[i].photo IN
              (photo # NoFile /\ photo \in pre[p].files) => photo \in files']_vars

\* ------------------------------------------------------------------- C9
\* C9: in every state of db.json no photo filename is held by two records.
C9_PhotoNamesDistinct ==
  dbState = "ok" =>
    \A i, j \in 1..Len(db) :
      (i # j /\ db[i].photo # NoFile) => db[i].photo # db[j].photo

\* ------------------------------------------------------------------ C10
GetAfterDelete(p) ==
  /\ pc[p] = "idle" /\ out[p].op = "delete" /\ out[p].status = 200
  /\ out'[p].op = "get" /\ out'[p].id = out[p].id /\ nreq'[p] = nreq[p] + 1

DeleteAnswers200(p) ==
  Answers(p) /\ req[p].op = "delete" /\ out'[p].status = 200

\* C10 as stated: a delete answered 200 leaves the item's photo file, if it
\* had one, out of the photo directory, and the get of the same id that
\* follows is answered 404.
C10_DeleteThenGet ==
  [][\A p \in Procs :
       /\ DeleteAnswers200(p) =>
            (req[p].old # NoFile => req[p].old \notin files')
       /\ GetAfterDelete(p) => out'[p].status = 404]_vars

\* C10 as amended: the same, except that the photo file may still be there
\* when its removal failed, which the handler logs and otherwise ignores.
C10_DeleteThenGetBestEffort ==
  [][\A p \in Procs :
       /\ DeleteAnswers200(p) =>
            /\ dbState' = "ok" /\ ~HasId(db', req[p].id)
            /\ req[p].old # NoFile =>
                 (req[p].old \notin files' \/ out'[p].warn)
       /\ GetAfterDelete(p) => out'[p].status = 404]_vars

\* an item with a photo was deleted, its file is gone, and a get of its id
\* was answered 404 while another record is still stored
C10_GetAfterDeleteSeen ==
  /\ out[1].op = "get" /\ out[1].status = 404 /\ dbState = "ok" /\ Len(db) > 0
  /\ \E d \in deleted : d.id = out[1].id /\ d.photo # NoFile /\ d.photo \notin files

\* ------------------------------------------------------------------ C11
\* C11: a register whose inventory_name is missing or empty is answered 400
\* at once and leaves db.json as it was, whatever state db.json is in and
\* whether or not a photo came with the request.
C11_EmptyNameRejected ==
  [][\A p \in Procs, n \in {Undefined, ""}, d \in DescVals,
        t \in Instants, e \in Exts :
       RegisterStart(p, n, d, t, e) =>
         /\ pc'[p] = "idle"
         /\ out'[p].op = "register" /\ out'[p].status = 400
         /\ dbState' = dbState /\ db' = db]_vars

\* a nameless register with a photo was refused while another request was
\* writing a collection that already holds a record
C11_RefusedWithUpload ==
  /\ out[1].op = "register" /\ out[1].status = 400
  /\ files # {} /\ issued # {}
  /\ pc[2] \in {"reg_data", "upd_data", "up_data", "del_data"}

\* ------------------------------------------------------------------ C12
\* C12: an update answered 200 leaves every other record as it was, keeps
\* the record's id and photo, replaces the name and the description that
\* were sent and keeps the one that was not.
C12_UpdateFrame ==
  [][\A p \in Procs :
       (Answers(p) /\ req[p].op = "update" /\ out'[p].status = 200) =>
         LET old == pre[p].db
             k == FindIndex(old, req[p].id) IN
         /\ dbState' = "ok" /\ Len(db') = Len(old)
         /\ \A i \in 1..Len(old) : i # k => db'[i] = old[i]
         /\ db'[k].id = old[k].id /\ db'[k].photo = old[k].photo
         /\ db'[k].name =
              IF req[p].name = Undefined THEN old[k].name ELSE req[p].name
         /\ db'[k].description =
              IF req[p].description = Undefined THEN old[k].description
              ELSE req[p].description]_vars

\* of two records, the first was renamed and kept its description and photo
C12_RenamedOnly ==
  /\ out[1].op = "update" /\ out[1].status = 200 /\ out[1].id = 1
  /\ dbState = "ok" /\ Len(db) = 2
  /\ db[1].name = "b" /\ db[1].description = "d" /\ db[1].photo # NoFile
  /\ db[2].name = "a" /\ db[2].description = ""

\* ------------------------------------------------------------------ C13
Ascending(ids) == \A i, j \in 1..Len(ids) : i < j => ids[i] < ids[j]
IdsInOrder(inv) == [i \in 1..Len(inv) |-> inv[i].id]

\* C13: with requests handled one after another from an empty store, the
\* records of db.json are stored in strictly ascending id order in every
\* state, and so is every list that was answered.
C13_ListAscending ==
  /\ dbState = "ok" => Ascending(IdsInOrder(db))
  /\ \A p \in Procs :
       (out[p].op = "list" /\ out[p].status = 200) =>
         Ascending(IdsInOrder(out[p].items))

\* a list of the two records left after the first of three was deleted
C13_ListAfterDelete ==
  /\ out[1].op = "list" /\ out[1].status = 200
  /\ IdsInOrder(out[1].items) = <<1, 2>>
  /\ dbState = "ok" /\ IdsInOrder(db) = <<1, 2>>

\* ------------------------------------------------------------------ C14
\* C14: no JSON body sent in answer to a request carries the stored
\* filename of an item's photo.
C14_NoRawFilename ==
  \A p \in Procs :
    out[p].json => ~(out[p].rawPhoto /\ out[p].photo # NoFile)

\* ------------------------------------------------------------------ C15
\* the id is written as a base-10 integer: digits and nothing else
IsBase10(s) == Len(s) > 0 /\ \A i \in 1..Len(s) : Digit(s[i]) >= 0

\* C15: a request whose id is not a base-10 integer is answered 400 by the
\* handler that receives it, in every state of db.json: by get, search,
\* update, updatePhoto, delete and the photo fetch.
C15_NonNumericRejected ==
  [][\A p \in Procs, i \in IdParams :
       (/\ ~IsBase10(i)
        /\ \/ Get(p, i)
           \/ GetPhoto(p, i)
           \/ DeleteRead(p, i)
           \/ \E o \in {Undefined, "on"} : Search(p, i, o)
           \/ \E n \in NewNames, d \in NewDescs : UpdateRead(p, i, n, d)
           \/ \E t \in Instants, e \in Exts : UpdatePhotoStart(p, i, t, e))
       => (pc'[p] = "idle" /\ out'[p].status = 400)]_vars

\* ------------------------------------------------------------------ C16
\* C16: in every state of db.json every record has a non-empty name.
C16_NamesNonEmpty ==
  dbState = "ok" => \A i \in 1..Len(db) : db[i].name # ""

\* ------------------------------------------------------------------ C17
\* this step is a whole read-only handler on connection p
ReadOnly(p) ==
  \/ List(p)
  \/ \E i \in IdParams : Get(p, i) \/ GetPhoto(p, i)
  \/ \E i \in IdParams \cup {<<>>}, o \in {Undefined, "on"} : Search(p, i, o)

\* another connection's fs.writeFile has opened db.json and not written it
WriteInProgress(p) ==
  \E q \in Procs \ {p} : pc[q] \in {"reg_data", "upd_data", "up_data", "del_data"}

\* C17: a get, list, search or photo fetch handled while another request's
\* write of db.json is in progress reads a complete image of the collection
\* and so is not answered 500, in runs where no disk operation has failed.
C17_ReadersSeeWholeImage ==
  [][\A p \in Procs :
       (ReadOnly(p) /\ WriteInProgress(p) /\ nfault = 0) =>
         (~Unparsable /\ out'[p].status # 500)]_vars

\* ------------------------------------------------------------------ C18
\* C18: a failing fs.unlink of a photo file does not change the answer:
\* delete still answers 200, updatePhoto goes on to write the new reference
\* and answers 200 when that write succeeds, and updatePhoto on an id that
\* has no record still answers 404 when the staged file cannot be removed.
C18_CleanupFailureSwallowed ==
  [][\A p \in Procs :
       /\ (pc[p] = "del_unlink" /\ nfault' = nfault + 1) =>
            (pc'[p] = "idle" /\ out'[p].status = 200)
       /\ (pc[p] = "up_unlink_old" /\ nfault' = nfault + 1) => pc'[p] = "up_open"
       /\ (pc[p] = "up_data" /\ req[p].warn /\ pc'[p] = "idle" /\ dbState' = "ok") =>
            out'[p].status = 200
       /\ (pc[p] = "up_unlink_staged" /\ nfault' = nfault + 1) =>
            (pc'[p] = "idle" /\ out'[p].status = 404)]_vars

\* ------------------------------------------------------------------ C19
Referenced(inv) == {inv[i].photo : i \in 1..Len(inv)} \ {NoFile}

\* C19: when no request is in progress and no disk operation has failed,
\* every file in the photo directory is the photo of some record.
C19_NoOrphanAtQuiescence ==
  ((\A p \in Procs : pc[p] = "idle") /\ nfault = 0) =>
    files \subseteq Referenced(db)

\* ------------------------------------------------------------------ C20
\* C20: a register answered 201 carries an id that no earlier 201 carried
\* (unless that item was deleted since), and at that moment db.json holds a
\* record with that id and the name the request supplied; this for every
\* interleaving of the handlers of two connections.
C20_ConcurrentRegistersDistinct ==
  [][\A p \in Procs :
       RegisterAnswers201(p) =>
         /\ out'[p].id \notin (issued \ DeletedIds)
         /\ dbState' = "ok"
         /\ HasId(db', out'[p].id)
         /\ ItemOf(db', out'[p].id).name = req[p].name]_vars

====
